---- MODULE Spec2Model ----
(***************************************************************************)
(* huv: hierarchical virtual environments on top of uv.                    *)
(*                                                                         *)
(* One behaviour is one run of the huv process on a file system: Init is   *)
(* the state after HierarchicalUV() has been constructed (uv found on      *)
(* PATH, current_venv read from VIRTUAL_ENV), and every action is one      *)
(* command handler of src/src/huv/main.py run to its end.  SpecWalk takes  *)
(* the loop of _get_parent_packages one iteration at a time, and SpecShell *)
(* runs the scripts the patcher wrote.                                     *)
(*                                                                         *)
(* Text is modelled as sequences of one-character strings, so that the     *)
(* regular expressions, str.lower(), str.strip() and the string            *)
(* comparisons of the source are computed and not assumed.                 *)
(***************************************************************************)
EXTENDS Integers, Sequences, FiniteSets, TLC

VARIABLES
    fs,            \* the file system: resolved path -> directory entry
    fs0,           \* the file system the process was started on
    current_venv,  \* HierarchicalUV.current_venv (VIRTUAL_ENV), or None
    phase,         \* "ready" before the command has run, "done" after it
    cmd,           \* the command line the process was started with
    exit_code,     \* exit status of the huv process
    stderr,        \* the error messages written to sys.stderr
    stdout,        \* the messages printed to sys.stdout
    calls,         \* the subprocesses run (and the exec), in order
    plan,          \* the locals of the pip handlers when they end
    uv_rc,         \* exit status of the uv subprocess the command delegates to
    chain_walk,    \* the locals of the loop of _get_parent_packages
    environ,       \* the variables of the shell that sources bin/activate
    environ0       \* the same, before the environment was activated

vars ==
    <<fs, fs0, current_venv, phase, cmd, exit_code, stderr, stdout, calls, plan,
      uv_rc, chain_walk, environ, environ0>>

\* Python's None where a path or a string is expected (both are falsy)
None == <<>>

(***************************************************************************)
(* Bounds of the model.                                                    *)
(***************************************************************************)
\* number of environments in the ancestor chain of the pip specification
MaxChain == 3
\* number of package specs on a pip command line
MaxPackages == 2
\* number of "+ name==version" lines in the dry-run output
MaxDeps == 2
\* number of names on the pip command line of the step-by-step walk
MaxWalkPackages == 1

(***************************************************************************)
(* Strings.                                                                *)
(***************************************************************************)
\* code points of the characters the model uses (Python compares str by
\* code point)
Ord(c) ==
    CASE c = " " -> 32 [] c = "!" -> 33 [] c = "\"" -> 34 [] c = "-" -> 45
      [] c = "." -> 46 [] c = "/" -> 47 [] c = "0" -> 48 [] c = "1" -> 49
      [] c = "2" -> 50 [] c = "3" -> 51 [] c = "4" -> 52 [] c = "5" -> 53
      [] c = "<" -> 60 [] c = "=" -> 61 [] c = ">" -> 62
      [] c = "A" -> 65 [] c = "B" -> 66 [] c = "C" -> 67
      [] c = "[" -> 91 [] c = "]" -> 93 [] c = "_" -> 95
      [] c = "a" -> 97 [] c = "b" -> 98 [] c = "c" -> 99 [] c = "e" -> 101
      [] c = "q" -> 113 [] c = "x" -> 120 [] c = "~" -> 126

\* str.lower() on one character
LowerChar(c) ==
    CASE c = "A" -> "a" [] c = "B" -> "b" [] c = "C" -> "c" [] OTHER -> c

\* str.lower()
Lower(s) == [i \in 1..Len(s) |-> LowerChar(s[i])]

IsSpace(c) == c = " "

\* str.strip(): drop leading and trailing whitespace
RECURSIVE LStrip(_)
LStrip(s) == IF s # <<>> /\ IsSpace(Head(s)) THEN LStrip(Tail(s)) ELSE s

RECURSIVE RStrip(_)
RStrip(s) ==
    IF s # <<>> /\ IsSpace(s[Len(s)]) THEN RStrip(SubSeq(s, 1, Len(s) - 1)) ELSE s

Strip(s) == RStrip(LStrip(s))

\* str.startswith(prefix)
StartsWith(s, prefix) ==
    /\ Len(s) >= Len(prefix)
    /\ SubSeq(s, 1, Len(prefix)) = prefix

\* s[n:]
DropFirst(s, n) == SubSeq(s, n + 1, Len(s))

\* Python's str < str: lexicographic by code point, a proper prefix is smaller
RECURSIVE StrLess(_, _)
StrLess(a, b) ==
    IF b = <<>> THEN FALSE
    ELSE IF a = <<>> THEN TRUE
    ELSE IF Ord(Head(a)) < Ord(Head(b)) THEN TRUE
    ELSE IF Ord(Head(a)) > Ord(Head(b)) THEN FALSE
    ELSE StrLess(Tail(a), Tail(b))

StrLessEq(a, b) == a = b \/ StrLess(a, b)

\* [a-zA-Z0-9_.-]
IsNameChar(c) ==
    c \in {"a", "b", "c", "e", "q", "x", "A", "B", "C",
           "0", "1", "2", "3", "4", "5", "_", ".", "-"}

\* length of the match of the greedy [a-zA-Z0-9_.-]* at the start of s
RECURSIVE NamePrefixLen(_)
NamePrefixLen(s) ==
    IF s # <<>> /\ IsNameChar(Head(s)) THEN 1 + NamePrefixLen(Tail(s)) ELSE 0

\* length of the match of the greedy [^"]* at the start of s
RECURSIVE NoQuotePrefixLen(_)
NoQuotePrefixLen(s) ==
    IF s # <<>> /\ Head(s) # "\"" THEN 1 + NoQuotePrefixLen(Tail(s)) ELSE 0

\* re.split(r"[<>=!]", s)[0]: the text before the first of < > = !
RECURSIVE BeforeOperatorLen(_)
BeforeOperatorLen(s) ==
    IF s # <<>> /\ Head(s) \notin {"<", ">", "=", "!"}
    THEN 1 + BeforeOperatorLen(Tail(s))
    ELSE 0

(***************************************************************************)
(* The file system.                                                        *)
(*                                                                         *)
(* A path is its resolved absolute string.  An entry says what is at the   *)
(* path; for a directory: whether pyvenv.cfg, bin/activate (act, and its   *)
(* text activate), bin/activate_this.py (this, and its text activate_this) *)
(* and bin/python exist, whether bin/activate can be opened for reading    *)
(* (readable), whether it holds anything else, and the packages            *)
(* installed in it (what "uv pip list" prints with VIRTUAL_ENV set to it). *)
(* Of pyvenv.cfg (cfg) the lines "version_info = ..." and "huv_parent =    *)
(* ..." are kept, None for a line that is not there.                       *)
(*                                                                         *)
(* The text of a script is a sequence of blocks: the blocks the patcher    *)
(* searches for and writes, and other text.                                *)
(***************************************************************************)
Blk(t) == [t |-> t, p |-> <<>>]
\* any text of the script that none of the patterns of the source match
TXT == Blk("TXT")
\* old_pythonhome_section
HOME == Blk("HOME")
\* the lines deactivate_insertion adds after old_pythonhome_section
PYPATH == Blk("PYPATH")
\* hash_line
HASH == Blk("HASH")
\* hierarchy_code, with the text substituted for {parent_path}
HIER(p) == [t |-> "HIER", p |-> p]
\* the end of the deactivate function old_pythonhome_section is in, and the
\* call "deactivate nondestructive" that follows the function
CALL == Blk("CALL")
\* the text of activate_this.py that old_pattern matches
SYSPATH == Blk("SYSPATH")
\* new_syspath_section, with the text substituted for {parent_path}
HIERPY(p) == [t |-> "HIERPY", p |-> p]

\* an empty name -> version mapping
EmptyDict == [n \in {} |-> <<>>]

Absent ==
    [kind |-> "absent", cfg |-> FALSE, act |-> FALSE, readable |-> FALSE,
     activate |-> <<>>,
     this |-> FALSE, activate_this |-> <<>>,
     version_info |-> None, huv_parent |-> None,
     python |-> FALSE, extra |-> FALSE, pkgs |-> EmptyDict]

AFile == [Absent EXCEPT !.kind = "file"]

EmptyDir == [Absent EXCEPT !.kind = "dir"]

OtherDir == [EmptyDir EXCEPT !.extra = TRUE]

\* Path.exists()
Exists(f, p) == p \in DOMAIN f /\ f[p].kind # "absent"

\* (p / "pyvenv.cfg").exists()
HasCfg(f, p) == Exists(f, p) /\ f[p].kind = "dir" /\ f[p].cfg

\* (p / "bin" / "activate").exists()
HasActivate(f, p) == Exists(f, p) /\ f[p].kind = "dir" /\ f[p].act

\* (p / "bin" / "activate_this.py").exists()
HasActivateThis(f, p) == Exists(f, p) /\ f[p].kind = "dir" /\ f[p].this

\* (p / "bin" / "python").exists()
HasPython(f, p) == Exists(f, p) /\ f[p].kind = "dir" /\ f[p].python

(***************************************************************************)
(* The activation script patcher.                                          *)
(***************************************************************************)
\* str.replace(old, new) on the text of a script: every block old becomes
\* the blocks new
RECURSIVE ReplaceBlk(_, _, _)
ReplaceBlk(content, old, new) ==
    IF content = <<>> THEN <<>>
    ELSE (IF Head(content) = old THEN new ELSE <<Head(content)>>)
         \o ReplaceBlk(Tail(content), old, new)

\* the text _modify_bash_activate writes back: old_pythonhome_section is
\* replaced by deactivate_insertion (the same lines followed by the
\* PYTHONPATH restoration), then hierarchy_code is put before hash_line
PatchedActivate(content, parent_path) ==
    LET restored == ReplaceBlk(content, HOME, <<HOME, PYPATH>>)
    IN  ReplaceBlk(restored, HASH, <<HIER(parent_path), HASH>>)

\* _modify_bash_activate: the file system after it
ModifyBashActivate(f, venv_path, parent_path) ==
    IF ~HasActivate(f, venv_path) THEN f
    ELSE [f EXCEPT ![venv_path].activate = PatchedActivate(@, parent_path)]

\* _modify_activate_this_py: the file system after it; re.sub puts
\* new_syspath_section where old_pattern matches
ModifyActivateThisPy(f, venv_path, parent_path) ==
    IF ~HasActivateThis(f, venv_path) THEN f
    ELSE [f EXCEPT ![venv_path].activate_this =
             ReplaceBlk(@, SYSPATH, <<HIERPY(parent_path)>>)]

(***************************************************************************)
(* The chain walker and the inventory reader.                              *)
(***************************************************************************)
\* Path(s): pathlib drops trailing slashes
RECURSIVE PathOf(_)
PathOf(s) ==
    IF Len(s) > 1 /\ s[Len(s)] = "/" THEN PathOf(SubSeq(s, 1, Len(s) - 1)) ELSE s

\* re.search(r'PARENT_VENV_PATH="([^"]*)"', content): group 1 of the first
\* match, or None.  Only hierarchy_code holds the text PARENT_VENV_PATH=",
\* and it closes the quote after the substituted path.
RECURSIVE SearchParentMarker(_)
SearchParentMarker(content) ==
    IF content = <<>> THEN [found |-> FALSE, group |-> <<>>]
    ELSE IF Head(content).t = "HIER"
         THEN [found |-> TRUE,
               group |-> SubSeq(Head(content).p, 1,
                                NoQuotePrefixLen(Head(content).p))]
         ELSE SearchParentMarker(Tail(content))

\* _find_parent_venv that reads a script open() refuses
FindParentVenvReadsAnyway(f, venv_path) ==
    IF venv_path = None THEN None
    ELSE IF ~HasActivate(f, venv_path) THEN None
    ELSE LET match == SearchParentMarker(f[venv_path].activate)
         IN  IF match.found /\ match.group # <<>> /\ Exists(f, PathOf(match.group))
             THEN PathOf(match.group)
             ELSE None

\* _find_parent_venv; an exception of open() or read() is caught and
\* None is returned
FindParentVenv(f, venv_path) ==
    IF venv_path = None THEN None
    ELSE IF ~HasActivate(f, venv_path) THEN None
    ELSE IF ~f[venv_path].readable THEN None
    ELSE LET match == SearchParentMarker(f[venv_path].activate)
         IN  IF match.found /\ match.group # <<>> /\ Exists(f, PathOf(match.group))
             THEN PathOf(match.group)
             ELSE None

\* the ancestor chain of an environment: parent, grandparent, ...
RECURSIVE AncestorChain(_, _)
AncestorChain(f, env) ==
    LET parent == FindParentVenv(f, env)
    IN  IF parent = None THEN <<>> ELSE <<parent>> \o AncestorChain(f, parent)

\* the dict of name.lower() -> version built from the listing
LowerKeys(pkgs) ==
    [n \in {Lower(r) : r \in DOMAIN pkgs} |->
        pkgs[CHOOSE r \in DOMAIN pkgs : Lower(r) = n]]

\* _get_installed_packages
GetInstalledPackages(f, venv_path) ==
    IF venv_path = None \/ ~Exists(f, venv_path) THEN EmptyDict
    ELSE IF ~HasPython(f, venv_path) THEN EmptyDict
    ELSE LowerKeys(f[venv_path].pkgs)

\* AddMissing with the membership test dropped: a farther ancestor
\* overwrites a nearer one
AddMissingOverwrites(all_packages, parent_packages) ==
    [n \in DOMAIN all_packages \cup DOMAIN parent_packages |->
        IF n \in DOMAIN parent_packages THEN parent_packages[n] ELSE all_packages[n]]

\* the body of the for loop of _get_parent_packages: names already in the
\* collection keep their version
AddMissing(all_packages, parent_packages) ==
    [n \in DOMAIN all_packages \cup DOMAIN parent_packages |->
        IF n \in DOMAIN all_packages THEN all_packages[n] ELSE parent_packages[n]]

\* the while loop of _get_parent_packages, from the state (current,
\* all_packages); listed are the environments whose packages were listed
RECURSIVE ParentPackagesLoop(_, _, _, _)
ParentPackagesLoop(f, current, all_packages, listed) ==
    LET parent == FindParentVenv(f, current)
    IN  IF current = None \/ parent = None
        THEN [all_packages |-> all_packages, listed |-> listed]
        ELSE ParentPackagesLoop(f, parent,
                 AddMissing(all_packages, GetInstalledPackages(f, parent)),
                 Append(listed, parent))

\* _get_parent_packages
GetParentPackages(f, venv_path) ==
    ParentPackagesLoop(f, venv_path, EmptyDict, <<>>).all_packages

\* the "pip list" subprocesses of an inventory read of the environments ps
ListCalls(f, ps) ==
    LET run == SelectSeq(ps, LAMBDA p : HasPython(f, p))
    IN  [i \in 1..Len(run) |-> [tool |-> "list", venv |-> run[i],
                                 nodeps |-> FALSE, args |-> <<>>]]

(***************************************************************************)
(* The dependency-tree fetcher.                                            *)
(*                                                                         *)
(* A Python dict is a sequence of [k, v] entries in insertion order.       *)
(***************************************************************************)
DictKeys(d) == {d[i].k : i \in 1..Len(d)}

DictGet(d, k) == d[CHOOSE i \in 1..Len(d) : d[i].k = k].v

\* d[k] = v
DictPut(d, k, v) ==
    IF k \in DictKeys(d)
    THEN [i \in 1..Len(d) |-> IF d[i].k = k THEN [k |-> k, v |-> v] ELSE d[i]]
    ELSE Append(d, [k |-> k, v |-> v])

\* the for loop of _get_dependency_tree over the output lines: a line
\* " + name==version" sets dependencies[name.lower()], any other is skipped
RECURSIVE ParseDryRun(_, _)
ParseDryRun(lines, dependencies) ==
    IF lines = <<>> THEN dependencies
    ELSE ParseDryRun(Tail(lines),
             IF Head(lines).plus
             THEN DictPut(dependencies, Lower(Head(lines).name), Head(lines).version)
             ELSE dependencies)

\* _get_dependency_tree, given what the dry-run subprocess did
GetDependencyTree(dryrun) ==
    IF dryrun.ok THEN ParseDryRun(dryrun.lines, <<>>) ELSE <<>>

(***************************************************************************)
(* The install planner.                                                    *)
(***************************************************************************)
\* _parse_version_constraint
ParseVersionConstraint(pkg_spec) ==
    LET stripped == Strip(pkg_spec)
        n == NamePrefixLen(stripped)
    IN  IF n >= 1
        THEN [name |-> Lower(SubSeq(stripped, 1, n)),
              constraint |-> DropFirst(stripped, n)]
        ELSE [name |-> Lower(pkg_spec), constraint |-> <<>>]

\* _is_version_compatible with ">" tested before ">="
IsVersionCompatibleGtFirst(available_version, constraint) ==
    IF constraint = <<>> THEN TRUE
    ELSE IF StartsWith(constraint, <<">">>)
         THEN StrLess(Strip(DropFirst(constraint, 1)), available_version)
    ELSE IF StartsWith(constraint, <<"=", "=">>)
         THEN available_version = Strip(DropFirst(constraint, 2))
    ELSE IF StartsWith(constraint, <<"<", "=">>)
         THEN StrLessEq(available_version, Strip(DropFirst(constraint, 2)))
    ELSE IF StartsWith(constraint, <<"<">>)
         THEN StrLess(available_version, Strip(DropFirst(constraint, 1)))
    ELSE TRUE

\* _is_version_compatible
IsVersionCompatible(available_version, constraint) ==
    IF constraint = <<>> THEN TRUE
    ELSE IF StartsWith(constraint, <<">", "=">>)
         THEN StrLessEq(Strip(DropFirst(constraint, 2)), available_version)
    ELSE IF StartsWith(constraint, <<"=", "=">>)
         THEN available_version = Strip(DropFirst(constraint, 2))
    ELSE IF StartsWith(constraint, <<">">>)
         THEN StrLess(Strip(DropFirst(constraint, 1)), available_version)
    ELSE IF StartsWith(constraint, <<"<", "=">>)
         THEN StrLessEq(available_version, Strip(DropFirst(constraint, 2)))
    ELSE IF StartsWith(constraint, <<"<">>)
         THEN StrLess(available_version, Strip(DropFirst(constraint, 1)))
    ELSE TRUE

\* the locals of pip_install before its loops
EmptyPlan ==
    [packages_to_install |-> <<>>, skipped_packages |-> <<>>,
     version_conflicts |-> <<>>, explicit_packages |-> {}]

\* one iteration of "for pkg_spec in packages" (dependency tree known)
ExplicitStep(pkg_spec, parent_packages, st) ==
    LET parsed == ParseVersionConstraint(pkg_spec)
        pkg_name == parsed.name
        st1 == [st EXCEPT !.explicit_packages = @ \cup {pkg_name}]
    IN  IF pkg_name \in DOMAIN parent_packages
        THEN IF IsVersionCompatible(parent_packages[pkg_name], parsed.constraint)
             THEN [st1 EXCEPT !.skipped_packages = Append(@, pkg_name)]
             ELSE [st1 EXCEPT
                      !.packages_to_install = Append(@, pkg_spec),
                      !.version_conflicts =
                          Append(@, [name |-> pkg_name,
                                     parent |-> parent_packages[pkg_name],
                                     required |-> parsed.constraint])]
        ELSE [st1 EXCEPT !.packages_to_install = Append(@, pkg_spec)]

RECURSIVE ExplicitLoop(_, _, _)
ExplicitLoop(packages, parent_packages, st) ==
    IF packages = <<>> THEN st
    ELSE ExplicitLoop(Tail(packages), parent_packages,
                      ExplicitStep(Head(packages), parent_packages, st))

\* DependencyStep without the lookup in parent_packages
DependencyStepInstallsAll(dep_name, parent_packages, st) ==
    IF dep_name \in st.explicit_packages THEN st
    ELSE [st EXCEPT !.packages_to_install = Append(@, dep_name)]

\* one iteration of "for dep_name, dep_version in dependency_tree.items()"
DependencyStep(dep_name, parent_packages, st) ==
    IF dep_name \in st.explicit_packages THEN st
    ELSE IF dep_name \in DOMAIN parent_packages
         THEN [st EXCEPT !.skipped_packages = Append(@, dep_name)]
         ELSE [st EXCEPT !.packages_to_install = Append(@, dep_name)]

RECURSIVE DependencyLoop(_, _, _)
DependencyLoop(deps, parent_packages, st) ==
    IF deps = <<>> THEN st
    ELSE DependencyLoop(Tail(deps), parent_packages,
                        DependencyStep(Head(deps).k, parent_packages, st))

\* the name the fallback takes from a spec:
\* re.split(r"[<>=!]", pkg_spec)[0].strip().lower()
FallbackName(pkg_spec) ==
    Lower(Strip(SubSeq(pkg_spec, 1, BeforeOperatorLen(pkg_spec))))

\* FallbackStep that tests the constraint as the explicit loop does
FallbackStepChecksVersion(pkg_spec, parent_packages, st) ==
    IF /\ FallbackName(pkg_spec) \in DOMAIN parent_packages
       /\ IsVersionCompatible(parent_packages[FallbackName(pkg_spec)],
                              ParseVersionConstraint(pkg_spec).constraint)
    THEN [st EXCEPT !.skipped_packages = Append(@, FallbackName(pkg_spec))]
    ELSE [st EXCEPT !.packages_to_install = Append(@, pkg_spec)]

\* one iteration of the fallback's "for pkg_spec in packages"
FallbackStep(pkg_spec, parent_packages, st) ==
    IF FallbackName(pkg_spec) \in DOMAIN parent_packages
    THEN [st EXCEPT !.skipped_packages = Append(@, FallbackName(pkg_spec))]
    ELSE [st EXCEPT !.packages_to_install = Append(@, pkg_spec)]

RECURSIVE FallbackLoop(_, _, _)
FallbackLoop(packages, parent_packages, st) ==
    IF packages = <<>> THEN st
    ELSE FallbackLoop(Tail(packages), parent_packages,
                      FallbackStep(Head(packages), parent_packages, st))

\* the install plan of pip_install: "if dependency_tree: ... else: ..."
InstallPlan(packages, parent_packages, dependency_tree) ==
    IF dependency_tree # <<>>
    THEN DependencyLoop(dependency_tree, parent_packages,
                        ExplicitLoop(packages, parent_packages, EmptyPlan))
    ELSE FallbackLoop(packages, parent_packages, EmptyPlan)

\* UseNoDeps with the test of skipped_packages inverted
UseNoDepsInverted(dependency_tree, skipped_packages) ==
    dependency_tree # <<>> /\ skipped_packages = <<>>

\* "if dependency_tree and skipped_packages: cmd.append('--no-deps')"
UseNoDeps(dependency_tree, skipped_packages) ==
    dependency_tree # <<>> /\ skipped_packages # <<>>

(***************************************************************************)
(* The uninstall planner.                                                  *)
(***************************************************************************)
EmptyRemoval ==
    [packages_to_remove |-> <<>>, not_found |-> <<>>, parent_available |-> <<>>]

\* UninstallStep that also removes what only an ancestor provides
UninstallStepVisible(pkg_name, current_packages, parent_packages, st) ==
    IF Lower(pkg_name) \in DOMAIN current_packages \cup DOMAIN parent_packages
    THEN [st EXCEPT !.packages_to_remove = Append(@, pkg_name)]
    ELSE [st EXCEPT !.not_found = Append(@, pkg_name)]

\* one iteration of "for pkg_name in packages" of pip_uninstall
UninstallStep(pkg_name, current_packages, parent_packages, st) ==
    LET pkg_name_lower == Lower(pkg_name)
    IN  IF pkg_name_lower \in DOMAIN current_packages
        THEN [st EXCEPT
                 !.packages_to_remove = Append(@, pkg_name),
                 !.parent_available =
                     IF pkg_name_lower \in DOMAIN parent_packages
                     THEN Append(@, pkg_name)
                     ELSE @]
        ELSE [st EXCEPT !.not_found = Append(@, pkg_name)]

RECURSIVE UninstallLoop(_, _, _, _)
UninstallLoop(packages, current_packages, parent_packages, st) ==
    IF packages = <<>> THEN st
    ELSE UninstallLoop(Tail(packages), current_packages, parent_packages,
             UninstallStep(Head(packages), current_packages, parent_packages, st))

(***************************************************************************)
(* What uv does to the current environment (VIRTUAL_ENV is inherited by    *)
(* the subprocess).                                                        *)
(***************************************************************************)
\* the packages of an environment after "uv pip install" of the specs
\* to_install ended with status 0: each named package at the version the
\* resolution gave it, or at version v if the resolution is unknown
RECURSIVE AfterInstall(_, _, _, _)
AfterInstall(pkgs, to_install, dependency_tree, v) ==
    IF to_install = <<>> THEN pkgs
    ELSE LET name == ParseVersionConstraint(Head(to_install)).name
             version == IF name \in DictKeys(dependency_tree)
                        THEN DictGet(dependency_tree, name)
                        ELSE v
             kept == {r \in DOMAIN pkgs : Lower(r) # name}
             next == [r \in kept \cup {name} |->
                         IF r = name THEN version ELSE pkgs[r]]
         IN  AfterInstall(next, Tail(to_install), dependency_tree, v)

\* the packages of an environment after "uv pip uninstall" of names ended
\* with status 0
AfterUninstall(pkgs, names) ==
    LET gone == {Lower(names[i]) : i \in 1..Len(names)}
    IN  [r \in {q \in DOMAIN pkgs : Lower(q) \notin gone} |-> pkgs[r]]

(***************************************************************************)
(* The inputs of the model.                                                *)
(***************************************************************************)
V15 == <<"1", ".", "5">>
V20 == <<"2", ".", "0">>
V25 == <<"2", ".", "5">>

\* no constraint, and the operators of _is_version_compatible
NoOp == <<>>
GE == <<">", "=">>
EQ == <<"=", "=">>
GT == <<">">>
LE == <<"<", "=">>
LT == <<"<">>

Req(name, op, lit) == [name |-> name, op |-> op, lit |-> lit]

\* the command-line text of a requested spec
SpecText(r) == r.name \o r.op \o r.lit

\* the specs a pip install command line is made of
Requests ==
    {Req(<<"a">>, NoOp, <<>>), Req(<<"a">>, GE, V20), Req(<<"a">>, EQ, V15),
     Req(<<"a">>, GT, V20), Req(<<"a">>, LE, V20), Req(<<"a">>, LT, V20),
     Req(<<"B">>, NoOp, <<>>), Req(<<"c">>, NoOp, <<>>)}

\* constraints that start with none of the operators of
\* _is_version_compatible: an exclusion, a compatible release, an extra
NE == <<"!", "=">>
TILDE == <<"~", "=">>
EXTRA == <<"[", "x", "]">>

\* specs with such constraints
ComplexRequests ==
    {Req(<<"a">>, NE, V15), Req(<<"a">>, TILDE, V20), Req(<<"a">>, EXTRA, <<>>)}

AllRequests == Requests \cup ComplexRequests

\* the names a pip uninstall command line is made of
UninstallNames == {<<"a">>, <<"B">>, <<"c">>}

\* the lines the dry run can print
DryRunLines ==
    {[plus |-> TRUE, name |-> n, version |-> V20] : n \in {<<"a">>, <<"B">>, <<"c">>}}
    \cup {[plus |-> FALSE, name |-> <<>>, version |-> <<>>]}

\* the exit statuses of a uv subprocess
ExitCodes == {0, 2}

\* the sequences over S of length at most n
SeqsUpTo(S, n) == UNION {[1..k -> S] : k \in 0..n}

\* what "uv pip list" can report for an environment
Inventories ==
    {[n \in {<<"a">>} |-> V15],
     [n \in {<<"a">>, <<"B">>} |-> IF n = <<"a">> THEN V25 ELSE V20]}

\* bin/activate as uv venv writes it: the deactivate function with the
\* PYTHONHOME section and its hash line, its end and the call of it, the
\* body, the final hash line
Template == <<TXT, HOME, HASH, CALL, TXT, HASH>>

\* bin/activate_this.py as uv venv writes it
TemplateThis == <<TXT, SYSPATH>>

DigitChar(i) == CASE i = 1 -> "1" [] i = 2 -> "2" [] i = 3 -> "3" [] i = 4 -> "4"
                  [] OTHER -> "5"

\* the i-th environment of the chain; the first is the root
EnvPath(i) == <<"/", DigitChar(i)>>

EnvPaths == {EnvPath(i) : i \in 1..MaxChain}

\* the interpreter uv venv takes when no --python is given, and another
\* one that is installed
DefaultPython == <<"3", ".", "1", "2">>
OtherPython == <<"3", ".", "1", "1">>

\* an environment as huv venv leaves it, with packages pkgs
Venv(parent_path, pkgs) ==
    [kind |-> "dir", cfg |-> TRUE, act |-> TRUE, readable |-> TRUE,
     version_info |-> DefaultPython, huv_parent |-> None,
     activate |-> IF parent_path = None THEN Template
                  ELSE PatchedActivate(Template, parent_path),
     this |-> TRUE,
     activate_this |-> IF parent_path = None THEN TemplateThis
                       ELSE ReplaceBlk(TemplateThis, SYSPATH,
                                       <<HIERPY(parent_path)>>),
     python |-> TRUE, extra |-> TRUE, pkgs |-> pkgs]

\* the file system after "huv venv /1", "huv venv /2 --parent /1", ... and
\* installs that gave environment i the packages invs[i]
ChainWorld(invs) ==
    [p \in EnvPaths |->
        LET i == CHOOSE j \in 1..MaxChain : EnvPath(j) = p
        IN  Venv(IF i = 1 THEN None ELSE EnvPath(i - 1), invs[i])]

(***************************************************************************)
(* Activation: a shell sources the bin/activate the patcher wrote and      *)
(* later calls deactivate, or a Python process executes activate_this.py.  *)
(* The shell runs the text the patcher inserted: deactivate_insertion in   *)
(* the deactivate function, hierarchy_code before every hash_line.         *)
(***************************************************************************)
\* a shell variable: unset, or set to a list of ":"-separated entries
Unset == [set |-> FALSE, val |-> <<>>]
SetTo(val) == [set |-> TRUE, val |-> val]

\* the variables bin/activate reads and writes, none of them set
NoEnviron ==
    [PYTHONPATH |-> Unset, OLD_VIRTUAL_PYTHONPATH |-> Unset, sys_path |-> <<>>]

\* [ -d p ]
IsDir(f, p) == Exists(f, p) /\ f[p].kind = "dir"

\* what the glob "$PARENT_VENV_PATH"/lib/python*/site-packages matches: an
\* environment with an interpreter has the directory
SitePackages(p) == p \o <<"/", "l">>
HasSitePackages(f, p) == HasPython(f, p)

\* the PYTHONPATH restoration of deactivate_insertion
RunPYPATH(e) ==
    IF e.OLD_VIRTUAL_PYTHONPATH.set
    THEN [e EXCEPT !.PYTHONPATH = SetTo(e.OLD_VIRTUAL_PYTHONPATH.val),
                   !.OLD_VIRTUAL_PYTHONPATH = Unset]
    ELSE IF e.PYTHONPATH.set
    THEN [e EXCEPT !.PYTHONPATH = Unset]
    ELSE e

\* hierarchy_code with PARENT_VENV_PATH = p
RunHIER(f, e, p) ==
    IF ~IsDir(f, p) THEN e
    ELSE LET stored == IF e.PYTHONPATH.set
                       THEN [e EXCEPT !.OLD_VIRTUAL_PYTHONPATH =
                                          SetTo(e.PYTHONPATH.val)]
                       ELSE e
         IN  IF ~HasSitePackages(f, p) THEN stored
             ELSE [stored EXCEPT !.PYTHONPATH =
                      IF @.set
                      THEN SetTo(@.val \o <<":">> \o SitePackages(p))
                      ELSE SetTo(SitePackages(p))]

\* the shell runs the blocks in order; only the inserted text reads or
\* writes PYTHONPATH
RECURSIVE RunBlocks(_, _, _)
RunBlocks(f, e, blocks) ==
    IF blocks = <<>> THEN e
    ELSE RunBlocks(f,
             CASE Head(blocks).t = "PYPATH" -> RunPYPATH(e)
               [] Head(blocks).t = "HIER" -> RunHIER(f, e, Head(blocks).p)
               [] OTHER -> e,
             Tail(blocks))

\* the place of the end of the deactivate function in a script, 0 if the
\* script defines none
CallIndex(script) ==
    IF \E i \in 1..Len(script) : script[i] = CALL
    THEN CHOOSE i \in 1..Len(script) :
             script[i] = CALL /\ \A j \in 1..(i - 1) : script[j] # CALL
    ELSE 0

\* the body of the deactivate function
DeactivateBody(script) == SubSeq(script, 1, CallIndex(script) - 1)

\* the text after the function and its call
ActivateBody(script) == SubSeq(script, CallIndex(script) + 1, Len(script))

\* "source bin/activate": the function is defined and called
\* (deactivate nondestructive), then the rest of the script runs
Source(f, e, script) ==
    RunBlocks(f, RunBlocks(f, e, DeactivateBody(script)), ActivateBody(script))

(***************************************************************************)
(* The pip commands.                                                       *)
(***************************************************************************)
\* Call on the parent of the environment
CallOnParent(tool, venv, nodeps, args) ==
    [tool |-> tool, venv |-> FindParentVenv(fs, venv), nodeps |-> nodeps,
     args |-> args]

\* a uv subprocess; venv is the VIRTUAL_ENV it works on, the one huv was
\* started with
Call(tool, venv, nodeps, args) ==
    [tool |-> tool, venv |-> venv, nodeps |-> nodeps, args |-> args]

\* the subprocesses cs started with the environment e: pythonpath is the
\* PYTHONPATH they see
InEnv(cs, e) ==
    [i \in 1..Len(cs) |->
        [tool |-> cs[i].tool, venv |-> cs[i].venv, nodeps |-> cs[i].nodeps,
         args |-> cs[i].args, pythonpath |-> e.PYTHONPATH]]

\* DryRunEnv with PYTHONPATH popped from os.environ itself
DryRunEnvInPlace(e) ==
    [process |-> [e EXCEPT !.PYTHONPATH = Unset],
     child |-> [e EXCEPT !.PYTHONPATH = Unset]]

\* "env = os.environ.copy(); env.pop('PYTHONPATH', None)" of
\* _get_dependency_tree: os.environ after it (process), and the env the
\* dry-run subprocess is given (child)
DryRunEnv(e) ==
    [process |-> e, child |-> [e EXCEPT !.PYTHONPATH = Unset]]

\* InstallCalls without the early return
InstallCallsAlways(venv, dependency_tree, skipped_packages, packages_to_install) ==
    <<[tool |-> "install", venv |-> venv,
       nodeps |-> dependency_tree # <<>> /\ skipped_packages # <<>>,
       args |-> packages_to_install]>>

\* the end of pip_install: nothing is run for an empty packages_to_install,
\* else uv pip install once
InstallCalls(venv, dependency_tree, skipped_packages, packages_to_install) ==
    IF packages_to_install = <<>> THEN <<>>
    ELSE <<Call("install", venv, UseNoDeps(dependency_tree, skipped_packages),
                packages_to_install)>>

\* UninstallCalls with one subprocess for each package
UninstallCallsOneByOne(venv, packages_to_remove) ==
    [i \in 1..Len(packages_to_remove) |->
        [tool |-> "uninstall", venv |-> venv, nodeps |-> FALSE,
         args |-> <<packages_to_remove[i]>>]]

\* the end of pip_uninstall: nothing is run for an empty packages_to_remove,
\* else uv pip uninstall once
UninstallCalls(venv, packages_to_remove) ==
    IF packages_to_remove = <<>> THEN <<>>
    ELSE <<Call("uninstall", venv, FALSE, packages_to_remove)>>

NoPlan ==
    [planned |-> FALSE, parent_packages |-> EmptyDict, dependency_tree |-> <<>>,
     dry_run_failed |-> FALSE,
     packages_to_install |-> <<>>, skipped_packages |-> <<>>,
     version_conflicts |-> <<>>, current_packages |-> EmptyDict,
     packages_to_remove |-> <<>>, not_found |-> <<>>, parent_available |-> <<>>]

\* the process ends before any plan is made
Fail(command, code, message) ==
    /\ phase' = "done"
    /\ cmd' = command
    /\ exit_code' = code
    /\ stderr' = {message}
    /\ stdout' = {}
    /\ calls' = <<>>
    /\ plan' = NoPlan
    /\ uv_rc' = 0
    /\ UNCHANGED <<fs, fs0, current_venv, chain_walk, environ, environ0>>

\* main() on "huv pip install <packages>": argparse, then pip_install.
\* dryrun is what the dry-run subprocess does, rc the exit status of the
\* install subprocess, v the version uv picks where the dry run named none.
PipInstall(packages, dryrun, rc, v) ==
    LET command == [name |-> "install", packages |-> packages,
                    path |-> None, parent |-> None, has_parent |-> FALSE, python |-> None]
    IN  /\ phase = "ready"
        /\ IF packages = <<>>
           THEN Fail(command, 2, "usage")
           ELSE IF current_venv = None
           THEN Fail(command, 1, "No active virtual environment")
           ELSE /\ phase' = "done"
                /\ cmd' = command
                /\ UNCHANGED <<fs0, current_venv, chain_walk, environ0>>
                /\ environ' = DryRunEnv(environ).process
                /\ LET walk == ParentPackagesLoop(fs, current_venv, EmptyDict, <<>>)
                       parent_packages == walk.all_packages
                       dependency_tree == GetDependencyTree(dryrun)
                       st == InstallPlan(packages, parent_packages, dependency_tree)
                   IN  /\ plan' = [NoPlan EXCEPT
                                      !.planned = TRUE,
                                      !.parent_packages = parent_packages,
                                      !.dependency_tree = dependency_tree,
                                      !.dry_run_failed = ~dryrun.ok,
                                      !.packages_to_install = st.packages_to_install,
                                      !.skipped_packages = st.skipped_packages,
                                      !.version_conflicts = st.version_conflicts]
                       /\ calls' =
                            InEnv(ListCalls(fs, walk.listed), environ)
                            \o InEnv(<<Call("dry-run", current_venv, FALSE,
                                            packages)>>,
                                     DryRunEnv(environ).child)
                            \o InEnv(InstallCalls(current_venv,
                                                  plan'.dependency_tree,
                                                  plan'.skipped_packages,
                                                  plan'.packages_to_install),
                                     environ')
                /\ IF plan'.packages_to_install = <<>>
                   THEN /\ exit_code' = 0
                        /\ uv_rc' = 0
                        /\ stderr' = {}
                        /\ stdout' = {"All requested packages are already available"}
                        /\ UNCHANGED fs
                   ELSE /\ exit_code' = rc
                        /\ uv_rc' = rc
                        /\ stderr' = IF rc = 0 THEN {} ELSE {"Installation failed"}
                        /\ stdout' = (IF calls'[Len(calls')].nodeps
                                      THEN {"Using --no-deps"} ELSE {})
                                     \cup (IF rc = 0
                                           THEN {"Installation completed"}
                                           ELSE {})
                        /\ fs' = IF rc = 0
                                 THEN [fs EXCEPT ![calls'[Len(calls')].venv].pkgs =
                                          AfterInstall(@, plan'.packages_to_install,
                                                       plan'.dependency_tree, v)]
                                 ELSE fs

\* pip_uninstall from the return of _get_parent_packages to its end:
\* parent_packages is what the walk returned, listed the environments it
\* listed, rc the exit status of the uninstall subprocess
UninstallEnd(command, rc, parent_packages, listed) ==
    /\ phase' = "done"
    /\ cmd' = command
    /\ UNCHANGED <<fs0, current_venv, environ, environ0>>
    /\ \E current_packages \in {GetInstalledPackages(fs, current_venv)} :
       \E st \in {UninstallLoop(command.packages, current_packages,
                                parent_packages, EmptyRemoval)} :
           /\ plan' = [NoPlan EXCEPT
                          !.planned = TRUE,
                          !.parent_packages = parent_packages,
                          !.current_packages = current_packages,
                          !.packages_to_remove = st.packages_to_remove,
                          !.not_found = st.not_found,
                          !.parent_available = st.parent_available]
           /\ \E run \in {ListCalls(fs, <<current_venv>> \o listed)
                          \o UninstallCalls(current_venv,
                                            plan'.packages_to_remove)} :
                  calls' = InEnv(run, environ)
    /\ LET warned == IF plan'.not_found # <<>>
                     THEN {"Packages not installed in current environment"}
                     ELSE {}
       IN  IF plan'.packages_to_remove = <<>>
           THEN /\ exit_code' = 0
                /\ uv_rc' = 0
                /\ stderr' = {}
                /\ stdout' = warned \cup {"No packages to uninstall"}
                /\ UNCHANGED fs
           ELSE /\ exit_code' = rc
                /\ uv_rc' = rc
                /\ stderr' = IF rc = 0 THEN {}
                             ELSE {"Uninstallation failed"}
                /\ stdout' = warned \cup (IF rc = 0
                                          THEN {"Uninstallation completed"}
                                          ELSE {})
                /\ fs' = IF rc = 0
                         THEN [fs EXCEPT ![calls'[Len(calls')].venv].pkgs =
                                  AfterUninstall(@, plan'.packages_to_remove)]
                         ELSE fs

UninstallCommand(packages) ==
    [name |-> "uninstall", packages |-> packages,
     path |-> None, parent |-> None, has_parent |-> FALSE, python |-> None]

\* main() on "huv pip uninstall <packages>": argparse, then pip_uninstall.
\* rc is the exit status of the uninstall subprocess.
PipUninstall(packages, rc) ==
    /\ phase = "ready"
    /\ IF packages = <<>>
       THEN Fail(UninstallCommand(packages), 2, "usage")
       ELSE IF current_venv = None
       THEN Fail(UninstallCommand(packages), 1, "No active virtual environment")
       ELSE LET walk == ParentPackagesLoop(fs, current_venv, EmptyDict, <<>>)
            IN  /\ UninstallEnd(UninstallCommand(packages), rc,
                                walk.all_packages, walk.listed)
                /\ UNCHANGED chain_walk

\* _get_parent_packages is not running
NoWalk == [pc |-> "idle", current |-> None, parent |-> None,
           all_packages |-> EmptyDict]

\* the variables of a process started in the shell that sourced
\* bin/activate of venv_path, from a shell with no PYTHONPATH
ActivatedEnviron(f, venv_path) ==
    IF venv_path = None \/ ~HasActivate(f, venv_path) THEN NoEnviron
    ELSE Source(f, NoEnviron, f[venv_path].activate)

\* the state of a process that has run nothing yet
FreshCommand ==
    /\ phase = "ready"
    /\ cmd = [name |-> "none", packages |-> <<>>, path |-> None,
              parent |-> None, has_parent |-> FALSE, python |-> None]
    /\ exit_code = 0
    /\ stderr = {}
    /\ stdout = {}
    /\ calls = <<>>
    /\ plan = NoPlan
    /\ uv_rc = 0
    /\ chain_walk = NoWalk

\* the same, started outside any environment
Fresh ==
    /\ FreshCommand
    /\ environ = NoEnviron
    /\ environ0 = NoEnviron

\* a huv process started in a chain of environments, in one of them or in
\* none
Init ==
    /\ fs \in {ChainWorld(invs) : invs \in [1..MaxChain -> Inventories]}
    /\ fs0 = fs
    /\ current_venv \in EnvPaths \cup {None}
    /\ FreshCommand
    /\ environ = ActivatedEnviron(fs, current_venv)
    /\ environ0 = environ

\* what the dry-run subprocess can do: fail, or print some lines
DryRuns ==
    {[ok |-> FALSE, lines |-> <<>>]}
    \cup {[ok |-> TRUE, lines |-> l] : l \in SeqsUpTo(DryRunLines, MaxDeps)}

Install ==
    /\ phase = "ready"
    /\ \E packages \in SeqsUpTo({SpecText(r) : r \in AllRequests}, MaxPackages),
          dryrun \in DryRuns, rc \in ExitCodes :
           PipInstall(packages, dryrun, rc, V20)

Uninstall ==
    /\ phase = "ready"
    /\ \E packages \in SeqsUpTo(UninstallNames, MaxPackages), rc \in ExitCodes :
           PipUninstall(packages, rc)

Next == Install \/ Uninstall

Spec == Init /\ [][Next]_vars

(***************************************************************************)
(* The venv command.                                                       *)
(***************************************************************************)
\* the working directory of the process
Cwd == <<"/">>

\* Path(arg).resolve(): a relative path is taken from the working directory
Resolve(arg) == IF arg # <<>> /\ Head(arg) = "/" THEN arg ELSE Cwd \o arg

\* any(venv_path.iterdir()) for a directory
NotEmpty(f, p) == f[p].cfg \/ f[p].act \/ f[p].python \/ f[p].extra

\* "Check if target already exists" of create_venv: the error it ends
\* with, or "" to go on.  iterdir() of a file raises NotADirectoryError,
\* which nothing catches.
TargetError(f, venv_path) ==
    IF ~Exists(f, venv_path) THEN ""
    ELSE IF HasCfg(f, venv_path) THEN "Virtual environment already exists"
    ELSE IF f[venv_path].kind = "file" THEN "Traceback: NotADirectoryError"
    ELSE IF NotEmpty(f, venv_path) THEN "Directory exists and is not empty"
    ELSE ""

\* ParentError without the test that the parent exists
ParentErrorNoExistenceTest(f, parent_arg) ==
    IF parent_arg = None THEN ""
    ELSE IF ~HasCfg(f, Resolve(parent_arg)) THEN "is not a valid virtual environment"
    ELSE IF ~HasActivate(f, Resolve(parent_arg)) THEN "is missing activate script"
    ELSE ""

\* "Validate parent environment if specified" of create_venv: the error it
\* ends with, or "" to go on
ParentError(f, parent_arg) ==
    IF parent_arg = None THEN ""
    ELSE IF ~Exists(f, Resolve(parent_arg)) THEN "does not exist"
    ELSE IF ~HasCfg(f, Resolve(parent_arg)) THEN "is not a valid virtual environment"
    ELSE IF ~HasActivate(f, Resolve(parent_arg)) THEN "is missing activate script"
    ELSE ""

\* the file system after "uv venv venv_path" exited with status 0: the
\* directory is (re)created with pyvenv.cfg, the interpreter and, unless uv
\* lays the scripts out elsewhere, bin/activate with the text script and
\* bin/activate_this.py; the interpreter is the one --python names, or uv's
\* default
UvVenv(f, venv_path, script, with_activate, with_this, python_arg) ==
    [p \in DOMAIN f \cup {venv_path} |->
        IF p = venv_path
        THEN [kind |-> "dir", cfg |-> TRUE, act |-> with_activate,
              readable |-> with_activate,
              version_info |-> IF python_arg = None THEN DefaultPython
                               ELSE python_arg,
              huv_parent |-> None,
              activate |-> IF with_activate THEN script ELSE <<>>,
              this |-> with_this,
              activate_this |-> IF with_this THEN TemplateThis ELSE <<>>,
              python |-> TRUE, extra |-> TRUE, pkgs |-> EmptyDict]
        ELSE f[p]]

\* _setup_hierarchy
SetupHierarchy(f, venv_path, parent_path) ==
    ModifyActivateThisPy(ModifyBashActivate(f, venv_path, parent_path),
                         venv_path, parent_path)

VenvCommand(path_arg, parent_arg, has_parent, python_arg) ==
    [name |-> "venv", packages |-> <<>>, path |-> path_arg,
     parent |-> parent_arg, has_parent |-> has_parent, python |-> python_arg]

\* main() on "huv venv <path> --parent <parent> [--python <version>]":
\* argparse, then create_venv with the other arguments as uv_args.
\* uv is what the uv venv subprocess does: its exit status, the activate
\* script and whether it wrote one.
CreateVenv(path_arg, parent_arg, python_arg, uv) ==
    LET command == VenvCommand(path_arg, parent_arg, TRUE, python_arg)
        venv_path == Resolve(path_arg)
        parent_path == IF parent_arg = None THEN None ELSE Resolve(parent_arg)
    IN  /\ phase = "ready"
        /\ IF TargetError(fs, venv_path) # ""
           THEN Fail(command, 1, TargetError(fs, venv_path))
           ELSE IF ParentError(fs, parent_arg) # ""
           THEN Fail(command, 1, ParentError(fs, parent_arg))
           ELSE /\ phase' = "done"
                /\ cmd' = command
                /\ plan' = NoPlan
                /\ calls' = InEnv(<<Call("venv", venv_path, FALSE, <<>>)>>, environ)
                /\ uv_rc' = uv.rc
                /\ UNCHANGED <<fs0, current_venv, chain_walk, environ, environ0>>
                /\ IF uv.rc # 0
                   THEN /\ exit_code' = 1
                        /\ stderr' = {"Error creating virtual environment"}
                        /\ stdout' = {"Creating virtual environment"}
                        /\ UNCHANGED fs
                   ELSE IF ~uv.activate
                   THEN /\ exit_code' = 1
                        /\ stderr' = {"missing activate script"}
                        /\ stdout' = {"Creating virtual environment"}
                        /\ fs' = UvVenv(fs, venv_path, uv.script, FALSE, uv.this,
                                        python_arg)
                   ELSE /\ exit_code' = 0
                        /\ stderr' = {}
                        /\ stdout' = {"Creating virtual environment",
                                      "Virtual environment created successfully"}
                                     \cup (IF parent_path # None
                                           THEN {"Hierarchy configured with parent"}
                                           ELSE {})
                                     \cup (IF parent_path # None /\ ~uv.this
                                           THEN {"Warning: activate_this.py not found"}
                                           ELSE {})
                        /\ fs' = IF parent_path # None
                                 THEN SetupHierarchy(
                                          UvVenv(fs, venv_path, uv.script, TRUE,
                                                 uv.this, python_arg),
                                          venv_path, parent_path)
                                 ELSE UvVenv(fs, venv_path, uv.script, TRUE, uv.this,
                                             python_arg)

\* uv venv refuses a file and a directory that is neither empty nor an
\* environment
UvVenvCanSucceed(f, venv_path) ==
    \/ ~Exists(f, venv_path)
    \/ HasCfg(f, venv_path)
    \/ f[venv_path].kind = "dir" /\ ~NotEmpty(f, venv_path)

\* main() on "huv venv <path>" without --parent: passthrough_command, which
\* replaces the process by uv; the exit status and the effect are uv's
PassthroughVenv(path_arg, python_arg, uv) ==
    LET venv_path == Resolve(path_arg)
    IN  /\ phase = "ready"
        /\ uv.rc = 0 => UvVenvCanSucceed(fs, venv_path)
        /\ phase' = "done"
        /\ cmd' = VenvCommand(path_arg, None, FALSE, python_arg)
        /\ plan' = NoPlan
        /\ calls' = InEnv(<<Call("exec", venv_path, FALSE, <<>>)>>, environ)
        /\ exit_code' = uv.rc
        /\ uv_rc' = uv.rc
        /\ stderr' = IF uv.rc = 0 THEN {} ELSE {"uv: error"}
        /\ stdout' = {}
        /\ fs' = IF uv.rc = 0
                 THEN UvVenv(fs, venv_path, uv.script, uv.activate, uv.this,
                             python_arg)
                 ELSE fs
        /\ UNCHANGED <<fs0, current_venv, chain_walk, environ, environ0>>

\* the path of an environment created earlier without a parent
ParentPath == <<"/", "1">>
\* the same, in a directory whose name holds a double quote
QuotedPath == <<"/", "1", "\"", "x">>
\* the path the new environment is asked at
TargetPath == <<"/", "t">>

\* the path and --parent arguments of the command line
PathArgs == {TargetPath, <<"t">>}
ParentArgs == {ParentPath, <<"1">>, QuotedPath, <<"q">>}

\* the activate scripts uv venv writes
Scripts == {Template, <<TXT, HASH>>}

\* what the uv venv subprocess can do
UvVenvOutcomes ==
    {[rc |-> 2, script |-> <<>>, activate |-> FALSE, this |-> FALSE]}
    \cup {[rc |-> 0, script |-> sc, activate |-> TRUE, this |-> th] :
              sc \in Scripts, th \in BOOLEAN}
    \cup {[rc |-> 0, script |-> <<>>, activate |-> FALSE, this |-> th] :
              th \in BOOLEAN}

\* what can be at a path before the command runs
Root == Venv(None, EmptyDict)
NoActivate ==
    [Root EXCEPT !.act = FALSE, !.readable = FALSE, !.activate = <<>>,
                 !.this = FALSE, !.activate_this = <<>>]
\* an environment created with --python
RootOther == [Root EXCEPT !.version_info = OtherPython]
ParentStates == {Absent, OtherDir, NoActivate, Root, RootOther}
\* the --python option of the command line
PythonArgs == {None, OtherPython}
TargetStates == {Absent, AFile, EmptyDir, OtherDir, Root}

\* a huv process started outside any environment, to create one
InitVenv ==
    /\ \E parent \in ParentStates, quoted \in {Absent, Root},
          target \in TargetStates :
          fs = [p \in {ParentPath, QuotedPath, TargetPath, Resolve(<<"q">>)} |->
                   CASE p = ParentPath -> parent
                     [] p = QuotedPath -> quoted
                     [] p = TargetPath -> target
                     [] OTHER -> Absent]
    /\ fs0 = fs
    /\ current_venv = None
    /\ Fresh

Create ==
    /\ phase = "ready"
    /\ \E path_arg \in PathArgs, parent_arg \in ParentArgs \cup {None},
          python_arg \in PythonArgs, uv \in UvVenvOutcomes :
           CreateVenv(path_arg, parent_arg, python_arg, uv)

Passthrough ==
    /\ phase = "ready"
    /\ \E path_arg \in PathArgs, python_arg \in PythonArgs, uv \in UvVenvOutcomes :
           PassthroughVenv(path_arg, python_arg, uv)

NextVenv == Create \/ Passthrough

SpecVenv == InitVenv /\ [][NextVenv]_vars

(***************************************************************************)
(* The ancestor walk, one iteration of its loop at a time.                 *)
(*                                                                         *)
(* pip uninstall on a file system where the PARENT_VENV_PATH lines are any *)
(* links between the environments: those huv wrote, and those left after   *)
(* an environment was removed and created again under one of its           *)
(* descendants, or after a script was edited by hand.                      *)
(***************************************************************************)
\* the path of an environment that was removed
GonePath == <<"/", "g">>

\* where a PARENT_VENV_PATH line can point
Links == EnvPaths \cup {None, GonePath}

\* environments whose activate scripts hold the links
LinkWorld(links, invs) ==
    [p \in EnvPaths |->
        LET i == CHOOSE j \in 1..MaxChain : EnvPath(j) = p
        IN  Venv(links[p], invs[i])]

\* the packages of the environments: neighbours differ
WalkInventories ==
    {[i \in 1..MaxChain |-> IF i % 2 = 1 THEN pair[1] ELSE pair[2]] :
        pair \in {q \in Inventories \X Inventories : q[1] # q[2]}}

InitWalk ==
    /\ fs \in {LinkWorld(links, invs) : links \in [EnvPaths -> Links],
                                        invs \in WalkInventories}
    /\ fs0 = fs
    /\ current_venv \in EnvPaths \cup {None}
    /\ Fresh

\* pip_uninstall up to the first test of "while current" in
\* _get_parent_packages
WalkBegin ==
    /\ phase = "ready"
    /\ \E packages \in SeqsUpTo(UninstallNames, MaxWalkPackages) :
          IF packages = <<>>
          THEN Fail(UninstallCommand(packages), 2, "usage")
          ELSE IF current_venv = None
          THEN Fail(UninstallCommand(packages), 1, "No active virtual environment")
          ELSE /\ phase' = "walking"
               /\ cmd' = UninstallCommand(packages)
               /\ chain_walk' = [pc |-> "while", current |-> current_venv,
                                 parent |-> None, all_packages |-> EmptyDict]
               /\ UNCHANGED <<fs, fs0, current_venv, exit_code, stderr, stdout,
                              calls, plan, uv_rc, environ, environ0>>

\* "while current: parent = self._find_parent_venv(current)" with a parent
\* found
WalkFind ==
    /\ phase = "walking"
    /\ chain_walk.pc = "while"
    /\ chain_walk.current # None
    /\ FindParentVenv(fs, chain_walk.current) # None
    /\ chain_walk' = [chain_walk EXCEPT
                         !.pc = "merge",
                         !.parent = FindParentVenv(fs, chain_walk.current)]
    /\ UNCHANGED <<fs, fs0, current_venv, phase, cmd, exit_code, stderr, stdout,
                   calls, plan, uv_rc, environ, environ0>>

\* the rest of the iteration: the parent's packages are listed and merged,
\* then "current = parent"
WalkMerge ==
    /\ phase = "walking"
    /\ chain_walk.pc = "merge"
    /\ chain_walk' =
          [pc |-> "while", current |-> chain_walk.parent, parent |-> None,
           all_packages |->
               AddMissing(chain_walk.all_packages,
                          GetInstalledPackages(fs, chain_walk.parent))]
    /\ UNCHANGED <<fs, fs0, current_venv, phase, cmd, exit_code, stderr, stdout,
                   calls, plan, uv_rc, environ, environ0>>

\* the iteration that ends at "break", and pip_uninstall from there to its
\* end
WalkEnd ==
    /\ phase = "walking"
    /\ chain_walk.pc = "while"
    /\ IF chain_walk.current = None \/ FindParentVenv(fs, chain_walk.current) = None
       THEN /\ \E rc \in ExitCodes, listed \in {AncestorChain(fs, current_venv)} :
                  UninstallEnd(cmd, rc, chain_walk.all_packages, listed)
            /\ chain_walk' = [chain_walk EXCEPT !.pc = "returned"]
       ELSE FALSE

NextWalk == WalkBegin \/ WalkFind \/ WalkMerge \/ WalkEnd

\* the process is scheduled until it ends
SpecWalk == InitWalk /\ [][NextWalk]_vars /\ WF_vars(NextWalk)

(***************************************************************************)
(* The shell and the Python process that activate an environment.          *)
(***************************************************************************)
\* the paths new_syspath_section puts in front of sys.path: the child's
\* site-packages, then the parent's
NewPaths(f, venv_path, p) ==
    (IF HasSitePackages(f, venv_path) THEN <<SitePackages(venv_path)>> ELSE <<>>)
    \o (IF Exists(f, p) /\ HasSitePackages(f, p)
        THEN <<SitePackages(p)>> ELSE <<>>)

\* sys.path after activate_this.py of venv_path was executed
RECURSIVE RunActivateThis(_, _, _, _)
RunActivateThis(f, sys_path, venv_path, blocks) ==
    IF blocks = <<>> THEN sys_path
    ELSE RunActivateThis(f,
             CASE Head(blocks).t = "HIERPY" ->
                      NewPaths(f, venv_path, Head(blocks).p) \o sys_path
               [] Head(blocks).t = "SYSPATH" ->
                      <<SitePackages(venv_path)>> \o sys_path
               [] OTHER -> sys_path,
             venv_path, Tail(blocks))

\* an entry of PYTHONPATH set by the user, and the library of the
\* interpreter
UserPath == <<"/", "u">>
StdLib == <<"/", "p">>

\* PYTHONPATH before activation: unset, empty, or set
UserValues == {Unset, SetTo(<<>>), SetTo(UserPath)}

\* the file system f after the environments gone were removed
Removed(f, gone) == [p \in DOMAIN f |-> IF p \in gone THEN Absent ELSE f[p]]

\* the chain of environments huv venv made, all with the same packages
ShellWorld ==
    ChainWorld([i \in 1..MaxChain |-> CHOOSE inv \in Inventories : TRUE])

ActivateCommand(venv_path, how) ==
    [name |-> how, packages |-> <<>>, path |-> venv_path,
     parent |-> None, has_parent |-> FALSE, python |-> None]

\* a shell, outside any environment, in a chain of environments some of
\* which were removed after their children were created
InitShell ==
    /\ fs \in {Removed(ShellWorld, gone) : gone \in SUBSET EnvPaths}
    /\ fs0 = fs
    /\ current_venv = None
    /\ phase = "ready"
    /\ cmd = ActivateCommand(None, "none")
    /\ exit_code = 0
    /\ stderr = {}
    /\ stdout = {}
    /\ calls = <<>>
    /\ plan = NoPlan
    /\ uv_rc = 0
    /\ chain_walk = NoWalk
    /\ environ \in {[PYTHONPATH |-> v, OLD_VIRTUAL_PYTHONPATH |-> Unset,
                      sys_path |-> <<StdLib>>] : v \in UserValues}
    /\ environ0 = environ

\* source <venv_path>/bin/activate
Activate ==
    /\ phase = "ready"
    /\ \E venv_path \in EnvPaths :
          /\ HasActivate(fs, venv_path)
          /\ phase' = "active"
          /\ cmd' = ActivateCommand(venv_path, "activate")
          /\ current_venv' = venv_path
          /\ environ' = Source(fs, environ, fs[venv_path].activate)
    /\ UNCHANGED <<fs, fs0, exit_code, stderr, stdout, calls, plan, uv_rc,
                   chain_walk, environ0>>

\* deactivate, in the shell that sourced bin/activate
Deactivate ==
    /\ phase = "active"
    /\ phase' = "deactivated"
    /\ current_venv' = None
    /\ environ' = RunBlocks(fs, environ, DeactivateBody(fs[current_venv].activate))
    /\ UNCHANGED <<fs, fs0, cmd, exit_code, stderr, stdout, calls, plan, uv_rc,
                   chain_walk, environ0>>

\* exec of <venv_path>/bin/activate_this.py in a Python process
ActivateThis ==
    /\ phase = "ready"
    /\ \E venv_path \in EnvPaths :
          /\ HasActivateThis(fs, venv_path)
          /\ phase' = "active_this"
          /\ cmd' = ActivateCommand(venv_path, "activate_this")
          /\ current_venv' = venv_path
          /\ environ' = [environ EXCEPT !.sys_path =
                             RunActivateThis(fs, @, venv_path,
                                             fs[venv_path].activate_this)]
    /\ UNCHANGED <<fs, fs0, exit_code, stderr, stdout, calls, plan, uv_rc,
                   chain_walk, environ0>>

NextShell == Activate \/ Deactivate \/ ActivateThis

SpecShell == InitShell /\ [][NextShell]_vars

(***************************************************************************)
(* The pip commands in a chain that was damaged after it was made: an      *)
(* environment was removed, or its bin/activate was deleted or made        *)
(* unreadable.                                                             *)
(***************************************************************************)
Damages == {"removed", "no_script", "unreadable"}

\* the file system f after how happened to the environment p
Damaged(f, p, how) ==
    [f EXCEPT ![p] =
        CASE how = "removed" -> Absent
          [] how = "no_script" ->
                 [@ EXCEPT !.act = FALSE, !.readable = FALSE, !.activate = <<>>]
          [] OTHER -> [@ EXCEPT !.readable = FALSE]]

\* a huv process started in an environment of a damaged chain
InitDangling ==
    /\ fs \in {Damaged(ChainWorld(invs), p, how) :
                  invs \in WalkInventories, p \in EnvPaths, how \in Damages}
    /\ fs0 = fs
    /\ current_venv \in {p \in EnvPaths : Exists(fs, p)}
    /\ FreshCommand
    /\ environ = ActivatedEnviron(fs, current_venv)
    /\ environ0 = environ

SpecDangling == InitDangling /\ [][Next]_vars

(***************************************************************************)
(* Properties.                                                             *)
(***************************************************************************)
Range(q) == {q[i] : i \in 1..Len(q)}

Count(q, x) == Cardinality({i \in 1..Len(q) : q[i] = x})

\* the requested spec a command-line text was made from
ReqOf(text) == CHOOSE r \in AllRequests : SpecText(r) = text

\* every spec of the command line has no constraint or one with an
\* operator of the planner's inputs: ==, >=, >, <=, <
PlainCommandLine == \A t \in Range(cmd.packages) : ReqOf(t) \in Requests

\* a pip command has made its plan
Planned(name) == phase = "done" /\ cmd.name = name /\ plan.planned

\* the subprocess invocations of one tool
CallsOf(tool) == {i \in 1..Len(calls) : calls[i].tool = tool}

\* C1: the visible set computed for an environment holds every package of
\* every environment of its ancestor chain, at the version of the nearest
\* ancestor that has it
C1_NearestAncestorWins ==
    Planned("install") \/ Planned("uninstall") =>
        LET chain == AncestorChain(fs, current_venv)
            inv(i) == GetInstalledPackages(fs, chain[i])
        IN  \A i \in 1..Len(chain) : \A n \in DOMAIN inv(i) :
                /\ n \in DOMAIN plan.parent_packages
                /\ (\A j \in 1..(i - 1) : n \notin DOMAIN inv(j))
                       => plan.parent_packages[n] = inv(i)[n]

\* C1 witness: a chain root <- parent <- current where both ancestors have
\* the same package at different versions and the parent's is the one seen
C1_Witness ==
    /\ Planned("install")
    /\ Len(AncestorChain(fs, current_venv)) = 2
    /\ LET chain == AncestorChain(fs, current_venv)
       IN  /\ <<"a">> \in DOMAIN GetInstalledPackages(fs, chain[1])
           /\ <<"a">> \in DOMAIN GetInstalledPackages(fs, chain[2])
           /\ GetInstalledPackages(fs, chain[1])[<<"a">>]
                  # GetInstalledPackages(fs, chain[2])[<<"a">>]
           /\ plan.parent_packages[<<"a">>]
                  = GetInstalledPackages(fs, chain[1])[<<"a">>]

\* plain string comparison of an available version with a constraint
Satisfies(available, op, lit) ==
    CASE op = NoOp -> TRUE
      [] op = GE -> ~StrLess(available, lit)
      [] op = EQ -> available = lit
      [] op = GT -> StrLess(lit, available)
      [] op = LE -> ~StrLess(lit, available)
      [] op = LT -> StrLess(available, lit)

\* what C2 says of the requested specs, with a stated operator or no
\* constraint, whose package is in the visible set: a spec is skipped (its
\* name put in skip, the spec not in to_install) exactly if the ancestor's
\* version satisfies it, and else is a conflict and in to_install
ExplicitDecidedByVersion ==
    \A t \in {u \in Range(cmd.packages) : ReqOf(u) \in Requests} :
        LET r == ReqOf(t)
            n == Lower(r.name)
            sat(q) == Satisfies(plan.parent_packages[n], q.op, q.lit)
        IN  n \in DOMAIN plan.parent_packages =>
              /\ sat(r) => /\ t \notin Range(plan.packages_to_install)
                           /\ n \in Range(plan.skipped_packages)
              /\ ~sat(r) =>
                     /\ t \in Range(plan.packages_to_install)
                     /\ [name |-> n, parent |-> plan.parent_packages[n],
                         required |-> r.op \o r.lit]
                            \in Range(plan.version_conflicts)
              /\ PlainCommandLine => Count(plan.skipped_packages, n) =
                     Cardinality({i \in 1..Len(cmd.packages) :
                         /\ Lower(ReqOf(cmd.packages[i]).name) = n
                         /\ sat(ReqOf(cmd.packages[i]))})

\* C2 as stated: in every pip_install invocation an explicit request whose
\* package is visible is skipped iff the ancestor's version satisfies its
\* constraint under string comparison, and is otherwise a conflict kept in
\* to_install
C2_Original == Planned("install") => ExplicitDecidedByVersion

\* C2 amended: the same, in every pip_install invocation whose dependency
\* closure is not empty
C2_ExplicitSkipIffCompatible ==
    Planned("install") /\ plan.dependency_tree # <<>> => ExplicitDecidedByVersion

\* C2 witness: "a>=2.0" with ancestor version 1.5 is a conflict and
\* installed, in an invocation with a closure
C2_Witness ==
    /\ Planned("install")
    /\ plan.dependency_tree # <<>>
    /\ cmd.packages = <<SpecText(Req(<<"a">>, GE, V20))>>
    /\ plan.parent_packages = [n \in {<<"a">>} |-> V15]
    /\ plan.packages_to_install = cmd.packages
    /\ plan.skipped_packages = <<>>
    /\ Len(plan.version_conflicts) = 1

\* the names of the explicitly requested packages
ExplicitNames == {Lower(ReqOf(t).name) : t \in Range(cmd.packages)}

\* C3: with a non-empty closure, a closure entry that is not an explicit
\* request is skipped if its name is visible and else is in to_install by
\* bare name; an explicit request that is not visible is in to_install
C3_DependenciesSkippedOrBare ==
    Planned("install") /\ plan.dependency_tree # <<>> =>
        /\ \A d \in DictKeys(plan.dependency_tree) \ ExplicitNames :
              IF d \in DOMAIN plan.parent_packages
              THEN /\ d \in Range(plan.skipped_packages)
                   /\ d \notin Range(plan.packages_to_install)
              ELSE /\ d \in Range(plan.packages_to_install)
                   /\ d \notin Range(plan.skipped_packages)
        /\ \A t \in Range(cmd.packages) :
              Lower(ReqOf(t).name) \notin DOMAIN plan.parent_packages
                  => t \in Range(plan.packages_to_install)

\* C3 witness: closure {c, b}, c requested, b provided by an ancestor:
\* to_install = [c], skip = [b]
C3_Witness ==
    /\ Planned("install")
    /\ cmd.packages = <<<<"c">>>>
    /\ DictKeys(plan.dependency_tree) = {<<"c">>, <<"b">>}
    /\ <<"b">> \in DOMAIN plan.parent_packages
    /\ plan.packages_to_install = <<<<"c">>>>
    /\ plan.skipped_packages = <<<<"b">>>>

\* C4 as stated: whenever the installer is invoked and something was
\* skipped, it is run with --no-deps, however the plan was computed
C4_Original ==
    Planned("install") /\ plan.skipped_packages # <<>> =>
        \A i \in CallsOf("install") : calls[i].nodeps

\* C4 amended: whenever the installer is invoked, something was skipped and
\* the dependency closure was not empty, it is run with --no-deps
C4_NoDepsWhenSkipped ==
    Planned("install") /\ plan.skipped_packages # <<>>
                       /\ plan.dependency_tree # <<>> =>
        \A i \in CallsOf("install") : calls[i].nodeps

\* C4 witness: an install invocation with --no-deps after a skip
C4_Witness ==
    /\ Planned("install")
    /\ plan.skipped_packages # <<>>
    /\ plan.dependency_tree # <<>>
    /\ \E i \in CallsOf("install") : calls[i].nodeps

\* C5: with an empty to_install no installer runs and the command succeeds;
\* with a non-empty one the installer runs exactly once, on to_install
C5_InstallerOnceOrNever ==
    Planned("install") =>
        IF plan.packages_to_install = <<>>
        THEN CallsOf("install") = {} /\ exit_code = 0
        ELSE /\ Cardinality(CallsOf("install")) = 1
             /\ \A i \in CallsOf("install") :
                    calls[i].args = plan.packages_to_install

\* C5 witness: everything requested is provided by an ancestor, nothing is
\* run
C5_Witness ==
    /\ Planned("install")
    /\ plan.packages_to_install = <<>>
    /\ plan.skipped_packages # <<>>
    /\ CallsOf("install") = {}
    /\ exit_code = 0

\* the requested names an ancestor provides and the environment lacks
InheritedOnly ==
    {t \in Range(cmd.packages) :
        /\ Lower(t) \in DOMAIN plan.parent_packages
        /\ Lower(t) \notin DOMAIN plan.current_packages}

\* C6: a requested package that only an ancestor provides is reported as
\* not found and never passed to the uninstaller; if no requested package
\* is installed locally the command succeeds without running it
C6_InheritedNotRemoved ==
    Planned("uninstall") =>
        /\ \A t \in InheritedOnly :
              /\ t \in Range(plan.not_found)
              /\ "Packages not installed in current environment" \in stdout
              /\ \A i \in CallsOf("uninstall") : t \notin Range(calls[i].args)
        /\ (\A t \in Range(cmd.packages) :
                Lower(t) \notin DOMAIN plan.current_packages)
              => exit_code = 0 /\ CallsOf("uninstall") = {}

\* C6 witness: only inherited packages are requested
C6_Witness ==
    /\ Planned("uninstall")
    /\ InheritedOnly # {}
    /\ InheritedOnly = Range(cmd.packages)
    /\ CallsOf("uninstall") = {}
    /\ exit_code = 0

\* the venv command has run on the target path
VenvDone == phase = "done" /\ cmd.name = "venv"

\* the venv command has created a child of a parent
CreatedWithParent ==
    VenvDone /\ cmd.has_parent /\ cmd.parent # None /\ exit_code = 0

\* C7: after a child is created with a parent, the chain walker finds for
\* the child exactly the resolved path of the parent
C7_RoundTrip ==
    CreatedWithParent =>
        FindParentVenv(fs, Resolve(cmd.path)) = Resolve(cmd.parent)

\* the round trip of C7 for the parent paths that hold no double quote
C7_RoundTripUnquoted ==
    CreatedWithParent /\ "\"" \notin Range(Resolve(cmd.parent)) =>
        FindParentVenv(fs, Resolve(cmd.path)) = Resolve(cmd.parent)

\* the venv command was given a --parent that does not exist
MissingParent ==
    VenvDone /\ cmd.has_parent /\ cmd.parent # None
             /\ ~Exists(fs0, Resolve(cmd.parent))

\* the target path was free: nothing there, or an empty directory
TargetFree ==
    \/ ~Exists(fs0, Resolve(cmd.path))
    \/ fs0[Resolve(cmd.path)] = EmptyDir

\* C8 as stated: with a --parent that does not exist the command runs no
\* subprocess, exits non-zero and reports "does not exist", whatever is at
\* the target path
C8_Original ==
    MissingParent =>
        calls = <<>> /\ exit_code # 0 /\ "does not exist" \in stderr

\* C8 amended: with a --parent that does not exist the command runs no
\* subprocess and exits non-zero whatever is at the target path, and
\* reports "does not exist" if the target path is free
C8_MissingParentRejected ==
    MissingParent =>
        /\ calls = <<>>
        /\ exit_code # 0
        /\ TargetFree => "does not exist" \in stderr

\* C8 witness: a missing parent and a free target
C8_Witness ==
    /\ MissingParent
    /\ TargetFree
    /\ calls = <<>>
    /\ exit_code = 1
    /\ stderr = {"does not exist"}

\* C9: the venv command, with or without --parent, on a target that holds
\* an environment exits non-zero, runs nothing and changes no file
C9_ExistingEnvironmentUntouched ==
    VenvDone /\ HasCfg(fs0, Resolve(cmd.path)) =>
        exit_code # 0 /\ calls = <<>> /\ fs = fs0

\* C10: the venv command on a target that is an existing directory exits
\* non-zero
C10_ExistingDirectoryFails ==
    VenvDone /\ Exists(fs0, Resolve(cmd.path))
             /\ fs0[Resolve(cmd.path)].kind = "dir" =>
        exit_code # 0

\* C11: the ancestor walk ends for every configuration of the parent
\* links, a cycle included, so that the command ends
C11_WalkTerminates == <>(phase = "done")

\* the walk of a chain that ends gives the visible set of the whole chain
C11_EndedWalkIsWholeChain ==
    Planned("uninstall") /\ chain_walk # NoWalk =>
        plan.parent_packages = GetParentPackages(fs0, current_venv)

\* the command delegated to a uv subprocess that exited with a non-zero
\* status
DelegateFailed ==
    phase = "done" /\ cmd.name \in {"venv", "install", "uninstall"} /\ uv_rc # 0

\* C12: for create, install and uninstall, if the uv subprocess exits with
\* a non-zero status then huv exits with that same status
C12_ExitCodeMirrored == DelegateFailed => exit_code = uv_rc

\* the exit status of a failed uv pip install or uninstall is huv's
C12_PipExitCodeMirrored ==
    DelegateFailed /\ cmd.name \in {"install", "uninstall"} => exit_code = uv_rc

\* the entries of a ":"-separated value
RECURSIVE Split(_, _)
Split(text, entry) ==
    IF text = <<>> THEN <<entry>>
    ELSE IF Head(text) = ":" THEN <<entry>> \o Split(Tail(text), <<>>)
    ELSE Split(Tail(text), Append(entry, Head(text)))

\* the place of the first x in q, 0 if there is none
FirstIndex(q, x) ==
    IF x \in Range(q) THEN CHOOSE i \in 1..Len(q) : q[i] = x /\ x \notin Range(SubSeq(q, 1, i - 1))
    ELSE 0

\* the module search path activation configured: the entries of PYTHONPATH
\* for the shell script, sys.path for activate_this.py
SearchPath ==
    IF phase = "active"
    THEN (IF environ.PYTHONPATH.set THEN Split(environ.PYTHONPATH.val, <<>>) ELSE <<>>)
    ELSE environ.sys_path

Activated == phase \in {"active", "active_this"}

\* C13: after activation the site-packages of every ancestor of the chain
\* is on the module search path, a nearer one before a farther one, and
\* (in sys.path) the environment's own before its parent's
C13_AncestorsOnSearchPath ==
    Activated =>
        LET chain == AncestorChain(fs, current_venv)
            at(i) == FirstIndex(SearchPath, SitePackages(chain[i]))
        IN  /\ \A i \in 1..Len(chain) : at(i) > 0
            /\ \A i \in 1..Len(chain), j \in 1..Len(chain) : i < j => at(i) < at(j)
            /\ phase = "active_this" /\ chain # <<>> =>
                   /\ FirstIndex(SearchPath, SitePackages(current_venv)) > 0
                   /\ FirstIndex(SearchPath, SitePackages(current_venv)) < at(1)

\* after activation the parent's site-packages is on the search path, and
\* in sys.path the environment's own is before it
C13_ParentOnSearchPath ==
    Activated /\ AncestorChain(fs, current_venv) # <<>> =>
        LET parent == AncestorChain(fs, current_venv)[1]
        IN  /\ FirstIndex(SearchPath, SitePackages(parent)) > 0
            /\ phase = "active_this" =>
                   /\ FirstIndex(SearchPath, SitePackages(current_venv)) > 0
                   /\ FirstIndex(SearchPath, SitePackages(current_venv))
                          < FirstIndex(SearchPath, SitePackages(parent))

\* the environment activated was created with a parent, and was
\* deactivated
DeactivatedChild ==
    /\ phase = "deactivated"
    /\ SearchParentMarker(fs[cmd.path].activate).found

\* C14: for an environment created with a parent, activation followed by
\* deactivate leaves PYTHONPATH as it was: the same value, or unset
C14_DeactivateRestores ==
    DeactivatedChild => environ.PYTHONPATH = environ0.PYTHONPATH

\* C15: after a child is created with a parent, its pyvenv.cfg holds a
\* huv_parent entry with the resolved path of the parent
C15_ParentRecordedInConfig ==
    CreatedWithParent =>
        fs[Resolve(cmd.path)].huv_parent = Resolve(cmd.parent)

\* C16: a child created with a parent and no --python has the
\* version_info of the parent in its pyvenv.cfg, and the creation reports
\* "Using parent's Python version:"
C16_ParentVersionInherited ==
    CreatedWithParent /\ cmd.python = None =>
        /\ fs[Resolve(cmd.path)].version_info
               = fs0[Resolve(cmd.parent)].version_info
        /\ "Using parent's Python version:" \in stdout

\* uv venv created the environment of a command with a validated parent
\* and left out a script the patcher targets
ScriptMissing ==
    /\ VenvDone /\ cmd.has_parent /\ cmd.parent # None
    /\ calls # <<>> /\ uv_rc = 0
    /\ ~fs[Resolve(cmd.path)].act \/ ~fs[Resolve(cmd.path)].this

\* C18: if a script the patcher targets is missing after uv created the
\* environment, a warning is printed for it, nothing of it is written and
\* the create command ends with status zero
C18_MissingScriptIsWarning ==
    ScriptMissing =>
        /\ exit_code = 0
        /\ stderr = {}
        /\ ~fs[Resolve(cmd.path)].act =>
               /\ "Warning: Activate script not found" \in stdout
               /\ fs[Resolve(cmd.path)].activate = <<>>
        /\ ~fs[Resolve(cmd.path)].this =>
               /\ "Warning: activate_this.py not found" \in stdout
               /\ fs[Resolve(cmd.path)].activate_this = <<>>

\* the same for activate_this.py alone
C18_MissingActivateThisIsWarning ==
    ScriptMissing /\ fs[Resolve(cmd.path)].act =>
        /\ exit_code = 0
        /\ stderr = {}
        /\ "Warning: activate_this.py not found" \in stdout
        /\ fs[Resolve(cmd.path)].activate_this = <<>>

\* the package name of an entry of to_install: a requested spec or a bare
\* name
InstallName(t) == Lower(SubSeq(t, 1, NamePrefixLen(t)))

\* the names in skip and the names in to_install of the plan
SkipNames == Range(plan.skipped_packages)
InstallNames == {InstallName(t) : t \in Range(plan.packages_to_install)}

\* C17: in every install plan no package name is both in skip and in
\* to_install, also when the command line names a package more than once
C17_SkipInstallDisjoint ==
    Planned("install") => SkipNames \cap InstallNames = {}

\* the same for the command lines that name every package once
C17_DisjointWithoutRepeats ==
    /\ Planned("install")
    /\ \A i, j \in 1..Len(cmd.packages) :
           i # j => InstallName(cmd.packages[i]) # InstallName(cmd.packages[j])
    => SkipNames \cap InstallNames = {}

\* the lowercase names of the packages installed in the current
\* environment when the command started
OwnNames == {Lower(r) : r \in DOMAIN fs0[current_venv].pkgs}

\* C19: a requested name is in the removal set iff its lowercase form is
\* in the environment's own inventory and else in not_found; a non-empty
\* removal set is passed to the uninstaller in one invocation
C19_UninstallPartition ==
    Planned("uninstall") =>
        /\ plan.packages_to_remove =
               SelectSeq(cmd.packages, LAMBDA t : Lower(t) \in OwnNames)
        /\ plan.not_found =
               SelectSeq(cmd.packages, LAMBDA t : Lower(t) \notin OwnNames)
        /\ plan.packages_to_remove # <<>> =>
               /\ Cardinality(CallsOf("uninstall")) = 1
               /\ \A i \in CallsOf("uninstall") :
                      calls[i].args = plan.packages_to_remove

\* C19 witness: one requested name is installed and one is not, and the
\* uninstaller ran once on the first
C19_Witness ==
    /\ Planned("uninstall")
    /\ Len(plan.packages_to_remove) = 1
    /\ Len(plan.not_found) = 1
    /\ Cardinality(CallsOf("uninstall")) = 1
    /\ \A i \in CallsOf("uninstall") : calls[i].args = plan.packages_to_remove

\* a requested spec names a package of the visible set
Visible(t) == Lower(ReqOf(t).name) \in DOMAIN plan.parent_packages

\* C20: when the dry run fails pip_install goes on with an empty closure:
\* each request whose name is visible is skipped, every other request is
\* in to_install as given, nothing else is in either, and the installer
\* runs if there is something to install
C20_DegradedPlan ==
    Planned("install") /\ plan.dry_run_failed =>
        /\ plan.dependency_tree = <<>>
        /\ LET seen == SelectSeq(cmd.packages, Visible)
           IN  plan.skipped_packages =
                   [i \in 1..Len(seen) |-> Lower(ReqOf(seen[i]).name)]
        /\ plan.packages_to_install =
               SelectSeq(cmd.packages, LAMBDA t : ~Visible(t))
        /\ plan.packages_to_install # <<>> => CallsOf("install") # {}

\* the same for the command lines whose specs have no constraint or one
\* with an operator of the planner's inputs
C20_DegradedPlanPlainSpecs ==
    Planned("install") /\ plan.dry_run_failed /\ PlainCommandLine =>
        /\ plan.dependency_tree = <<>>
        /\ LET seen == SelectSeq(cmd.packages, Visible)
           IN  plan.skipped_packages =
                   [i \in 1..Len(seen) |-> Lower(ReqOf(seen[i]).name)]
        /\ plan.packages_to_install =
               SelectSeq(cmd.packages, LAMBDA t : ~Visible(t))
        /\ plan.packages_to_install # <<>> => CallsOf("install") # {}

\* a degraded plan: the dry run failed, "a>=2.0" was skipped because an
\* ancestor has a (at 1.5), and c was installed
C20_Witness ==
    /\ Planned("install")
    /\ plan.dry_run_failed
    /\ cmd.packages = <<SpecText(Req(<<"a">>, GE, V20)), <<"c">>>>
    /\ plan.parent_packages = [n \in {<<"a">>} |-> V15]
    /\ plan.skipped_packages = <<<<"a">>>>
    /\ plan.packages_to_install = <<<<"c">>>>
    /\ CallsOf("install") # {}

\* the place of an environment in the chain
IndexOf(p) == CHOOSE j \in 1..MaxChain : EnvPath(j) = p

\* the ancestors environment i of a chain still reaches: its parent if its
\* own script is there and can be read and the parent is there, and so on
\* from the parent
RECURSIVE Reachable(_, _)
Reachable(f, i) ==
    IF \/ i = 1
       \/ ~f[EnvPath(i)].act
       \/ ~f[EnvPath(i)].readable
       \/ f[EnvPath(i - 1)].kind = "absent"
    THEN <<>>
    ELSE <<EnvPath(i - 1)>> \o Reachable(f, i - 1)

\* C21: where the recorded parent path is gone, or a script is absent or
\* unreadable, the chain ends there: install and uninstall plan with the
\* packages of the ancestors still reached, nearest first, and end without
\* an error of their own
C21_DanglingLinkEndsChain ==
    Planned("install") \/ Planned("uninstall") =>
        LET chain == Reachable(fs0, IndexOf(current_venv))
            inv(i) == LowerKeys(fs0[chain[i]].pkgs)
        IN  /\ DOMAIN plan.parent_packages =
                   UNION {DOMAIN inv(i) : i \in 1..Len(chain)}
            /\ \A i \in 1..Len(chain) : \A n \in DOMAIN inv(i) :
                   (\A j \in 1..(i - 1) : n \notin DOMAIN inv(j))
                       => plan.parent_packages[n] = inv(i)[n]
            /\ \A i \in CallsOf("list") :
                   calls[i].venv \in Range(chain) \cup {current_venv}
            /\ exit_code = uv_rc
            /\ stderr \subseteq {"Installation failed", "Uninstallation failed"}
            /\ uv_rc = 0 => stderr = {}

\* C21 witness: the root was removed, so the link of the parent dangles;
\* an install in the grandchild skipped a package of the parent, installed
\* another and ended with status 0
C21_Witness ==
    /\ Planned("install")
    /\ current_venv = EnvPath(3)
    /\ fs0[EnvPath(1)].kind = "absent"
    /\ SearchParentMarker(fs0[EnvPath(2)].activate).group = EnvPath(1)
    /\ plan.parent_packages = LowerKeys(fs0[EnvPath(2)].pkgs)
    /\ plan.skipped_packages # <<>>
    /\ CallsOf("install") # {}
    /\ exit_code = 0

\* C22: the dry-run subprocess runs without PYTHONPATH, os.environ is as
\* it was when pip_install ends, and the install subprocess sees the
\* PYTHONPATH the process was started with
C22_DryRunEnvironIsLocal ==
    Planned("install") =>
        /\ \A i \in CallsOf("dry-run") : ~calls[i].pythonpath.set
        /\ environ = environ0
        /\ \A i \in CallsOf("install") :
               calls[i].pythonpath = environ0.PYTHONPATH

\* C22 witness: huv was started with PYTHONPATH set by the activation of a
\* child; the dry run ran without it and the installer with it
C22_Witness ==
    /\ Planned("install")
    /\ environ0.PYTHONPATH.set
    /\ \E i \in CallsOf("dry-run") : ~calls[i].pythonpath.set
    /\ \E i \in CallsOf("install") :
           /\ calls[i].pythonpath = environ0.PYTHONPATH
           /\ \E j \in CallsOf("dry-run") : j < i

\* the directories the patched bin/activate of the current environment
\* adds to PYTHONPATH, and those its patched activate_this.py adds to
\* sys.path besides the environment's own
ShellPaths ==
    LET e == ActivatedEnviron(fs0, current_venv)
    IN  IF e.PYTHONPATH.set THEN Range(Split(e.PYTHONPATH.val, <<>>)) ELSE {}

PythonPaths ==
    Range(RunActivateThis(fs0, <<>>, current_venv, fs0[current_venv].activate_this))
        \ {SitePackages(current_venv)}

\* the ancestors that have the package n
Providers(n) ==
    {p \in Range(AncestorChain(fs0, current_venv)) :
        n \in DOMAIN GetInstalledPackages(fs0, p)}

\* C23: every package pip_install skips is provided by an ancestor whose
\* site-packages the patched activation scripts of the environment put on
\* the search path, and the ancestors the planner consulted are the ones
\* activation adds, for chains of any depth
C23_PlannerAgreesWithActivation ==
    Planned("install") =>
        /\ \A n \in Range(plan.skipped_packages) :
               \E p \in Providers(n) :
                   SitePackages(p) \in ShellPaths \cap PythonPaths
        /\ ShellPaths =
               {SitePackages(p) : p \in Range(AncestorChain(fs0, current_venv))}
        /\ PythonPaths = ShellPaths

\* the same for an environment whose parent has no parent
C23_AgreesForOneParent ==
    Planned("install") /\ Len(AncestorChain(fs0, current_venv)) <= 1 =>
        /\ \A n \in Range(plan.skipped_packages) :
               \E p \in Providers(n) :
                   SitePackages(p) \in ShellPaths \cap PythonPaths
        /\ ShellPaths =
               {SitePackages(p) : p \in Range(AncestorChain(fs0, current_venv))}
        /\ PythonPaths = ShellPaths

\* the requested specs whose constraint starts with none of the operators
\* and whose package is in the visible set
ComplexVisible ==
    {t \in Range(cmd.packages) : ReqOf(t) \in ComplexRequests /\ Visible(t)}

\* C24: an explicit request whose constraint starts with none of
\* ==, >=, >, <=, < (a!=1.5, a~=2.0, a[x]) and whose package an ancestor
\* has is skipped, whatever the ancestor's version, and is not put in
\* to_install
C24_ComplexConstraintSkipped ==
    Planned("install") =>
        \A t \in ComplexVisible :
            /\ Lower(ReqOf(t).name) \in Range(plan.skipped_packages)
            /\ t \notin Range(plan.packages_to_install)

\* the same in the invocations whose dependency closure is not empty
C24_SkippedWithClosure ==
    Planned("install") /\ plan.dependency_tree # <<>> =>
        \A t \in ComplexVisible :
            /\ Lower(ReqOf(t).name) \in Range(plan.skipped_packages)
            /\ t \notin Range(plan.packages_to_install)

====
